---- MODULE Spec2Model ----
(***************************************************************************)
(* agent-bench: the task-execution pipeline of the benchmark harness.      *)
(*                                                                         *)
(*   runner.py     TaskRunner.run_task / run_all / _execute_task /         *)
(*                 _prepare_workspace / _clone_repo                        *)
(*   evaluator.py  Verifier.verify, BenchmarkResult, SuiteResults          *)
(*                                                                         *)
(* Optional[...] values are sequences of length 0 (None) or 1.  A call     *)
(* yields a record [raised, value]: raised is None or <<exception>>,       *)
(* value is None or <<returned value>>.  A Python keyword call is a        *)
(* record of its keyword arguments; it binds iff the record's field names  *)
(* are exactly the callee's (default-free) parameters, and raises          *)
(* TypeError otherwise.                                                    *)
(***************************************************************************)
EXTENDS Integers, Sequences, FiniteSets, TLC

----------------------------------------------------------------------------
(* Bounds *)

\* task files in the tasks directory
MaxTasks == 2

\* invocations of run_task / run_all
MaxRuns == 2

\* the iteration count of an agent that iterated
MaxIterations == 2

\* the token count of an agent that reports one
MaxTokens == 1

\* largest wall-clock duration of a run, in seconds
MaxDuration == 1

\* largest max_iterations a ClaudeAgent is constructed with
MaxCap == 3
\* longest list of results handed to SuiteResults.from_results
MaxResults == 2
\* most files a tasks directory holds
MaxFiles == 2


----------------------------------------------------------------------------
(* Values *)

None == <<>>

Some(v) == <<v>>

Return(v) == [raised |-> None, value |-> Some(v)]

Raise(type, msg) == [raised |-> Some([type |-> type, msg |-> msg]), value |-> None]

Raised(call) == call.raised # None

ExcType(call) == call.raised[1].type

ExcMsg(call) == call.raised[1].msg

----------------------------------------------------------------------------
(* task.py: the task record (the fields the pipeline reads) *)

Task(id, repository, commit, command) ==
    [id |-> id, source |-> [repository |-> repository, commit |-> commit],
     verification |-> [command |-> command, timeout |-> 60]]

\* The task files a tasks directory may hold.  Task.from_file validates only
\* id, title and prompt, so an empty repository or command loads.
TaskPool ==
    { Task("fix-1", "none", "main", "pytest -q"),
      Task("fix-2", "https://host/repo.git", "abc123", "pytest -q"),
      Task("fix-1", "https://host/repo.git", "main", "nosuchprog"),
      Task("fix-2", "", "HEAD", ""),
      Task("fix-2", "none", "main", "echo 'x") }

TaskIds == { t.id : t \in TaskPool }

AgentTypes == {"claude"}

----------------------------------------------------------------------------
(* evaluator.py: Verifier *)

\* shlex.split on the verification commands of TaskPool: POSIX tokenization,
\* ValueError("No closing quotation") on an unbalanced quote.
shlex_split(command) ==
    CASE command = ""           -> Return(<<>>)
      [] command = "pytest -q"  -> Return(<<"pytest", "-q">>)
      [] command = "nosuchprog" -> Return(<<"nosuchprog">>)
      [] command = "echo 'x"    -> Raise("ValueError", <<"No closing quotation">>)

ExitCodes == {0, 1, -9}

\* What the operating system can do with a spawned program: fail to start it,
\* let it run past the deadline, or let it exit with a code.
ProcessOutcomes(program) ==
    IF program = "nosuchprog"
    THEN {[kind |-> "spawn_error", code |-> 0]}
    ELSE {[kind |-> "exit", code |-> c] : c \in ExitCodes}
           \cup {[kind |-> "timeout", code |-> 0]}

\* The outcomes the environment can choose for Verifier.verify on this task
\* (a single "none" when the command never reaches the spawn).
VerifyOutcomes(task) ==
    LET split == shlex_split(task.verification.command) IN
    IF Raised(split) \/ split.value[1] = <<>>
    THEN {[kind |-> "none", code |-> 0]}
    ELSE ProcessOutcomes(split.value[1][1])

VerificationResult(passed, exit_code) == [passed |-> passed, exit_code |-> exit_code]

\* Faulty variant: a timeout reported as a failed result.
verify_on_timeout_mutant(task) ==
    Return(VerificationResult(FALSE, None))

verify_on_timeout(task) ==
    Raise("VerificationError",
          <<"Verification command timed out after ",
            ToString(task.verification.timeout), " seconds">>)

\* Faulty variant: any non-negative exit code passes.
verify_passed_mutant(exit_code) == exit_code >= 0

verify_passed(exit_code) == exit_code = 0

verify(task, outcome) ==
    LET split == shlex_split(task.verification.command) IN
    IF Raised(split) THEN split
    ELSE IF split.value[1] = <<>>
    THEN Raise("VerificationError", <<"Empty verification command">>)
    ELSE IF outcome.kind = "timeout" THEN verify_on_timeout(task)
    ELSE IF outcome.kind = "spawn_error"
    THEN Raise("VerificationError", <<"Failed to execute verification command: ", "OSError">>)
    ELSE Return(VerificationResult(verify_passed(outcome.code), Some(outcome.code)))

----------------------------------------------------------------------------
(* evaluator.py: BenchmarkResult *)

create_success_params == {"task_id", "agent", "iterations", "tokens_used", "duration_secs"}

create_failure_params == create_success_params \cup {"error"}

create_success(kwargs) ==
    IF DOMAIN kwargs = create_success_params
    THEN Return([task_id |-> kwargs.task_id, agent |-> kwargs.agent,
                 success |-> TRUE, score |-> 100,
                 iterations |-> kwargs.iterations, tokens_used |-> kwargs.tokens_used,
                 duration_secs |-> kwargs.duration_secs,
                 verification_output |-> None, agent_output |-> None, error |-> None])
    ELSE Raise("TypeError", <<"create_success() got an unexpected keyword argument">>)

create_failure_mutant(kwargs) ==
    IF DOMAIN kwargs = create_failure_params
    THEN Return([task_id |-> kwargs.task_id, agent |-> kwargs.agent,
                 success |-> FALSE, score |-> 0,
                 iterations |-> kwargs.iterations, tokens_used |-> kwargs.tokens_used,
                 duration_secs |-> kwargs.duration_secs,
                 verification_output |-> None, agent_output |-> None,
                 error |-> None])
    ELSE Raise("TypeError", <<"create_failure() got an unexpected keyword argument">>)

create_failure(kwargs) ==
    IF DOMAIN kwargs = create_failure_params
    THEN Return([task_id |-> kwargs.task_id, agent |-> kwargs.agent,
                 success |-> FALSE, score |-> 0,
                 iterations |-> kwargs.iterations, tokens_used |-> kwargs.tokens_used,
                 duration_secs |-> kwargs.duration_secs,
                 verification_output |-> None, agent_output |-> None,
                 error |-> Some(kwargs.error)])
    ELSE Raise("TypeError", <<"create_failure() got an unexpected keyword argument">>)

with_verification_output(result, output) == [result EXCEPT !.verification_output = Some(output)]

with_agent_output(result, output) == [result EXCEPT !.agent_output = Some(output)]

\* model_dump_json + write: the record as it lands in the results directory.
BenchmarkResult_save(result) ==
    [file |-> <<result.task_id, result.agent,
                IF result.success THEN "pass" ELSE "fail">>,
     record |-> result]

----------------------------------------------------------------------------
(* evaluator.py: SuiteResults *)

is_passed_mutant(result) == TRUE

\* the filter of `sum(1 for r in results if r.success)`
is_passed(result) == result.success

RECURSIVE CountSuccess(_)
CountSuccess(results) ==
    IF results = <<>> THEN 0
    ELSE (IF is_passed(Head(results)) THEN 1 ELSE 0) + CountSuccess(Tail(results))

RECURSIVE SumDuration(_)
SumDuration(results) ==
    IF results = <<>> THEN 0
    ELSE Head(results).duration_secs + SumDuration(Tail(results))

pass_rate_mutant(passed, total_tasks) == [num |-> passed, den |-> total_tasks]

\* pass_rate is the quotient passed / total_tasks, kept as the pair of its
\* numerator and denominator; 0.0 is 0/1.
pass_rate(passed, total_tasks) ==
    IF total_tasks > 0 THEN [num |-> passed, den |-> total_tasks]
                       ELSE [num |-> 0, den |-> 1]

from_results(agent, results) ==
    LET total_tasks == Len(results)
        passed == CountSuccess(results)
        failed == total_tasks - passed
    IN [agent |-> agent, results |-> results, total_tasks |-> total_tasks,
        passed |-> passed, failed |-> failed,
        pass_rate |-> pass_rate(passed, total_tasks),
        total_duration_secs |-> SumDuration(results)]

SuiteResults_save(suite) == [file |-> <<"suite", suite.agent>>, record |-> suite]

----------------------------------------------------------------------------
(* runner.py: the workspace directory of a task id and its preparation *)

\* A directory: whether it exists, whether it holds a cloned repository, the
\* runs whose agent left a file in it, and the commit git checkout was run with.
Dir(exists, repo, written) ==
    [exists |-> exists, repo |-> repo, written |-> written, checked_out |-> None]

NoDir == Dir(FALSE, FALSE, {})

IsEmpty(dir) == dir.exists /\ ~dir.repo /\ dir.written = {}

\* What the file system and git can do during one preparation.
PrepEnvs == [rmtree : BOOLEAN, clone : BOOLEAN, checkout : BOOLEAN, mkdir : BOOLEAN]

\* A step of the preparation: the call's outcome, the directory it leaves and
\* whether Repo.clone_from was invoked.
PrepStep(call, dir, cloned) == [call |-> call, dir |-> dir, cloned |-> cloned]

StayOnDefaultBranch == {"main", "master", "HEAD"}

\* Faulty variant: every commit is checked out.
stays_on_default_mutant(commit) == FALSE

stays_on_default(commit) == commit \in StayOnDefaultBranch

_clone_repo(repo_url, commit, dir, env) ==
    IF ~env.clone \/ (dir.exists /\ ~IsEmpty(dir))
    THEN PrepStep(Raise("GitError", <<"Failed to clone repository: ", "clone_from">>),
                  dir, TRUE)
    ELSE IF stays_on_default(commit)
    THEN PrepStep(Return("None"), Dir(TRUE, TRUE, {}), TRUE)
    ELSE IF ~env.checkout
    THEN PrepStep(Raise("GitError", <<"Failed to clone repository: ",
                                      "Failed to checkout '", commit, "': ", "git">>),
                  Dir(TRUE, TRUE, {}), TRUE)
    ELSE PrepStep(Return("None"), [Dir(TRUE, TRUE, {}) EXCEPT !.checked_out = Some(commit)],
                  TRUE)

\* Faulty variant: "none" taken for a repository URL.
needs_clone_mutant(repository) == repository # ""

needs_clone(repository) == repository # "none" /\ repository # ""

\* Faulty variant: the existing workspace is kept.
remove_existing_mutant(dir) == dir

remove_existing(dir) == IF dir.exists THEN NoDir ELSE dir

_prepare_workspace(task, dir, env) ==
    IF dir.exists /\ ~env.rmtree
    THEN PrepStep(Raise("OSError", <<"rmtree">>), dir, FALSE)
    ELSE LET clean == remove_existing(dir) IN
         IF needs_clone(task.source.repository)
         THEN LET step == _clone_repo(task.source.repository, task.source.commit,
                                      clean, env)
              IN IF Raised(step.call) THEN step
                 ELSE [step EXCEPT !.call = Return(task.id)]
         ELSE IF ~env.mkdir
         THEN PrepStep(Raise("OSError", <<"mkdir">>), clean, FALSE)
         ELSE PrepStep(Return(task.id), [clean EXCEPT !.exists = TRUE], FALSE)

----------------------------------------------------------------------------
(* agents/base.py: what agent.execute can do *)

AgentResult(success, iterations, tokens_used) ==
    [success |-> success, output |-> "transcript", iterations |-> iterations,
     tokens_used |-> tokens_used,
     agent_version |-> Some("claude-agent-sdk"), model_name |-> Some("claude-sonnet-4-5")]

\* agent.execute returns an AgentResult or raises AgentError; while it runs the
\* agent may leave a file in the workspace.  The results differ in the success
\* flag and in whether the agent reports iterations and tokens.
AgentOutcomes ==
    { Return(AgentResult(s, m[1], m[2])) :
        s \in BOOLEAN, m \in {<<0, None>>, <<MaxIterations, Some(MaxTokens)>>} }
      \cup { Raise("AgentError", <<"Failed to execute task with SDK: ", "sdk">>) }

Durations == 0..MaxDuration

----------------------------------------------------------------------------
(* State *)

VARIABLES
    tasksDir,      \* the tasks TaskLoader.load_all yields, in load order
    ws,            \* the workspace root: task id -> directory
    saved,         \* the files written to the results directory, in order
    invocations,   \* CLI invocations started so far
    run,           \* _execute_task runs started so far
    mode,          \* "idle", "run_task" or "run_all"
    agent,         \* agent.name() of the invocation's agent
    idx,           \* run_all: index of the task being run
    results,       \* run_all: the results list
    pc,            \* position inside the invocation
    cur,           \* Some(task) of the current _execute_task
    stale,         \* the workspace directory as the current run found it
    cloned,        \* whether the current run invoked Repo.clone_from
    calls,         \* the current run's stage calls, counted
    trace,         \* the current run's states, in order
    prep,          \* Some(outcome of _prepare_workspace) in the current run
    agent_result,  \* Some(outcome of agent.execute) in the current run
    outcome,       \* what the environment did to the verification command
    verification,  \* Some(outcome of Verifier.verify) in the current run
    ret,           \* Some(outcome of _execute_task) once it has ended
    finished,      \* Some(outcome of the last finished invocation)
    claude,        \* the frame of one ClaudeAgent.execute call
    grant,         \* task permissions and what each adapter makes of them
    bench,         \* BenchmarkResults built by the factories, and their suite
    loader,        \* a tasks directory and the list TaskLoader.load_all builds from it
    sdk            \* os.environ around one ClaudeSDKAgent.execute call

suiteVars == <<tasksDir, invocations, mode, agent, idx, results, finished>>

runVars == <<run, cur, stale, cloned, calls, trace, prep, agent_result, outcome,
             verification, ret>>

pipelineVars == <<tasksDir, ws, saved, invocations, run, mode, agent, idx, results, pc,
                  cur, stale, cloned, calls, trace, prep, agent_result, outcome,
                  verification, ret, finished>>

\* The components exercised on their own, outside a pipeline run.
unitVars == <<claude, grant, bench, loader, sdk>>

vars == <<pipelineVars, unitVars>>

NoCalls == [prepare |-> 0, execute |-> 0, verify |-> 0, save |-> 0]

NoOutcome == [kind |-> "none", code |-> 0]

TaskLists == UNION { [1..n -> TaskPool] : n \in 0..MaxTasks }

\* The pipeline before its first invocation.
PipelineStart ==
    /\ ws = [id \in TaskIds |-> NoDir]
    /\ saved = <<>>
    /\ invocations = 0
    /\ run = 0
    /\ mode = "idle"
    /\ agent = "claude"
    /\ idx = 0
    /\ results = <<>>
    /\ pc = "idle"
    /\ cur = None
    /\ stale = NoDir
    /\ cloned = FALSE
    /\ calls = NoCalls
    /\ trace = <<>>
    /\ prep = None
    /\ agent_result = None
    /\ outcome = NoOutcome
    /\ verification = None
    /\ ret = None
    /\ finished = None

Init ==
    /\ tasksDir \in TaskLists
    /\ PipelineStart
    /\ claude = None
    /\ grant = None
    /\ bench = None
    /\ loader = None
    /\ sdk = None

----------------------------------------------------------------------------
(* runner.py: TaskRunner *)

\* Entry of _execute_task(task, agent): a fresh run in state Init.
BeginExecuteTask(task) ==
    /\ run' = run + 1
    /\ cur' = Some(task)
    /\ stale' = ws[task.id]
    /\ cloned' = FALSE
    /\ calls' = NoCalls
    /\ trace' = <<"Init">>
    /\ prep' = None
    /\ agent_result' = None
    /\ outcome' = NoOutcome
    /\ verification' = None
    /\ ret' = None
    /\ pc' = "prepare"

\* End of an invocation: its outcome goes to the CLI.
EndInvocation(m, call) ==
    /\ finished' = Some([mode |-> m, call |-> call, loaded |-> Len(tasksDir)])
    /\ mode' = "idle"
    /\ pc' = "idle"

\* TaskLoader.load_by_id: the first loaded task with this id.
load_by_id(tasks, task_id) ==
    LET hits == { i \in 1..Len(tasks) : tasks[i].id = task_id } IN
    IF hits = {} THEN Raise("TaskNotFoundError", <<task_id>>)
    ELSE Return(tasks[CHOOSE i \in hits : \A j \in hits : i <= j])

run_task(task_id, agent_type) ==
    /\ pc = "idle"
    /\ invocations < MaxRuns
    /\ invocations' = invocations + 1
    /\ agent' = agent_type
    /\ LET task == load_by_id(tasksDir, task_id) IN
       IF Raised(task)
       THEN /\ EndInvocation("run_task", task)
            /\ UNCHANGED runVars
       ELSE /\ mode' = "run_task"
            /\ BeginExecuteTask(task.value[1])
            /\ finished' = None
    /\ UNCHANGED <<tasksDir, ws, saved, idx, results>>
    /\ UNCHANGED unitVars

run_all(agent_type) ==
    /\ pc = "idle"
    /\ invocations < MaxRuns
    /\ invocations' = invocations + 1
    /\ agent' = agent_type
    /\ mode' = "run_all"
    /\ results' = <<>>
    /\ IF tasksDir = <<>>
       THEN /\ idx' = 0
            /\ pc' = "aggregate"
            /\ UNCHANGED runVars
       ELSE /\ idx' = 1
            /\ BeginExecuteTask(tasksDir[1])
    /\ finished' = None
    /\ UNCHANGED <<tasksDir, ws, saved>>
    /\ UNCHANGED unitVars

\* except-block of the workspace stage: the create_failure call it makes.
on_prepare_error(task, name, duration, e) ==
    create_failure([task_id |-> task.id, agent |-> name, iterations |-> 0,
                    tokens_used |-> None, duration_secs |-> duration,
                    error |-> <<"Failed to prepare workspace: ">> \o e,
                    agent_version |-> None, model_name |-> None])

\* except-block of the agent stage: the create_failure call it makes.
on_execute_error(task, name, duration, e) ==
    create_failure([task_id |-> task.id, agent |-> name, iterations |-> 0,
                    tokens_used |-> None, duration_secs |-> duration,
                    error |-> <<"Agent execution failed: ">> \o e,
                    agent_version |-> None, model_name |-> None])

\* except-block of the verification stage: the create_failure call it makes.
on_verify_error(task, name, ar, duration, e) ==
    create_failure([task_id |-> task.id, agent |-> name, iterations |-> ar.iterations,
                    tokens_used |-> ar.tokens_used, duration_secs |-> duration,
                    error |-> <<"Verification failed: ">> \o e,
                    agent_version |-> ar.agent_version, model_name |-> ar.model_name])

\* "Create result": create_success when verification passed, else create_failure.
create_result(task, name, ar, v, duration) ==
    IF v.passed
    THEN create_success([task_id |-> task.id, agent |-> name, iterations |-> ar.iterations,
                         tokens_used |-> ar.tokens_used, duration_secs |-> duration,
                         agent_version |-> ar.agent_version, model_name |-> ar.model_name])
    ELSE create_failure([task_id |-> task.id, agent |-> name, iterations |-> ar.iterations,
                         tokens_used |-> ar.tokens_used, duration_secs |-> duration,
                         error |-> <<"Verification tests failed">>,
                         agent_version |-> ar.agent_version, model_name |-> ar.model_name])

\* Faulty variant: the except-block of the workspace stage falls through.
after_prepare_mutant(call) == "execute"

\* Where _execute_task goes after the workspace stage.
after_prepare(call) == IF Raised(call) THEN "return" ELSE "execute"

\* Where _execute_task goes after the agent stage.
after_execute(call) == IF Raised(call) THEN "return" ELSE "verify"

\* _execute_task, "Prepare workspace": _prepare_workspace and its except-block.
PrepareWorkspace ==
    /\ pc = "prepare"
    /\ \E env \in PrepEnvs, d \in Durations :
         LET task == cur[1]
             step == _prepare_workspace(task, ws[task.id], env)
             failure == on_prepare_error(task, agent, d, ExcMsg(step.call))
         IN /\ ws' = [ws EXCEPT ![task.id] = step.dir]
            /\ cloned' = step.cloned
            /\ calls' = [calls EXCEPT !.prepare = @ + 1]
            /\ prep' = Some(step.call)
            /\ pc' = after_prepare(step.call)
            /\ IF Raised(step.call)
               THEN /\ ret' = Some(failure)
                    /\ trace' = Append(trace, IF Raised(failure) THEN "Raised" ELSE "Failed")
               ELSE /\ ret' = ret
                    /\ trace' = Append(trace, "WorkspaceReady")
    /\ UNCHANGED <<suiteVars, saved, run, cur, stale, agent_result, outcome, verification>>
    /\ UNCHANGED unitVars

\* _execute_task, "Execute agent": agent.execute and its except-block.
AgentExecute ==
    /\ pc = "execute"
    /\ \E out \in AgentOutcomes, writes \in BOOLEAN, d \in Durations :
         LET task == cur[1]
             failure == on_execute_error(task, agent, d, ExcMsg(out))
         IN /\ ws' = [ws EXCEPT ![task.id].written = IF writes THEN @ \cup {run} ELSE @]
            /\ calls' = [calls EXCEPT !.execute = @ + 1]
            /\ agent_result' = Some(out)
            /\ pc' = after_execute(out)
            /\ IF Raised(out)
               THEN /\ ret' = Some(failure)
                    /\ trace' = Append(trace, IF Raised(failure) THEN "Raised" ELSE "Failed")
               ELSE /\ ret' = ret
                    /\ trace' = Append(trace, "AgentExecuted")
    /\ UNCHANGED <<suiteVars, saved, run, cur, stale, cloned, prep, outcome, verification>>
    /\ UNCHANGED unitVars

\* _execute_task, "Run verification": Verifier.verify and its except-block, which
\* attaches the agent transcript, saves the failure and returns it.
Verify ==
    /\ pc = "verify"
    /\ \E o \in VerifyOutcomes(cur[1]), d \in Durations, save_ok \in BOOLEAN :
         LET task == cur[1]
             ar == agent_result[1].value[1]
             v == verify(task, o)
             failure == on_verify_error(task, agent, ar, d, ExcMsg(v))
             result == with_agent_output(failure.value[1], ar.output)
         IN /\ outcome' = o
            /\ verification' = Some(v)
            /\ IF ~Raised(v)
               THEN /\ pc' = "create"
                    /\ trace' = Append(trace, "Verified")
                    /\ calls' = [calls EXCEPT !.verify = @ + 1]
                    /\ UNCHANGED <<saved, ret>>
               ELSE /\ pc' = "return"
                    /\ IF Raised(failure)
                       THEN /\ ret' = Some(failure)
                            /\ trace' = Append(trace, "Raised")
                            /\ calls' = [calls EXCEPT !.verify = @ + 1]
                            /\ UNCHANGED saved
                       ELSE /\ calls' = [calls EXCEPT !.verify = @ + 1, !.save = @ + 1]
                            /\ IF save_ok
                               THEN /\ saved' = Append(saved, BenchmarkResult_save(result))
                                    /\ ret' = Some(Return(result))
                                    /\ trace' = Append(trace, "Failed")
                               ELSE /\ saved' = saved
                                    /\ ret' = Some(Raise("OSError", <<"save">>))
                                    /\ trace' = Append(trace, "Raised")
    /\ UNCHANGED <<suiteVars, ws, run, cur, stale, cloned, prep, agent_result>>
    /\ UNCHANGED unitVars

\* _execute_task, "Create result" to the end: build the result from the
\* verification, attach both transcripts, save it and return it.
CreateResult ==
    /\ pc = "create"
    /\ \E d \in Durations, save_ok \in BOOLEAN :
         LET task == cur[1]
             ar == agent_result[1].value[1]
             v == verification[1].value[1]
             built == create_result(task, agent, ar, v, d)
             result == with_verification_output(
                           with_agent_output(built.value[1], ar.output),
                           <<"Exit code: ", v.exit_code>>)
         IN /\ pc' = "return"
            /\ IF Raised(built)
               THEN /\ ret' = Some(built)
                    /\ trace' = Append(trace, "Raised")
                    /\ UNCHANGED <<saved, calls>>
               ELSE /\ calls' = [calls EXCEPT !.save = @ + 1]
                    /\ IF save_ok
                       THEN /\ saved' = Append(saved, BenchmarkResult_save(result))
                            /\ ret' = Some(Return(result))
                            /\ trace' = Append(trace, IF result.success THEN "Persisted"
                                                                        ELSE "Failed")
                       ELSE /\ saved' = saved
                            /\ ret' = Some(Raise("OSError", <<"save">>))
                            /\ trace' = Append(trace, "Raised")
    /\ UNCHANGED <<suiteVars, ws, run, cur, stale, cloned, prep, agent_result, outcome,
                   verification>>
    /\ UNCHANGED unitVars

\* The caller's await of _execute_task ends.  run_task hands the outcome on;
\* run_all appends a returned result and goes to the next task, while a raised
\* exception leaves its loop and run_all.
ExecuteTaskReturns ==
    /\ pc = "return"
    /\ IF mode = "run_task"
       THEN /\ EndInvocation("run_task", ret[1])
            /\ UNCHANGED <<idx, results, runVars>>
       ELSE IF Raised(ret[1])
       THEN /\ EndInvocation("run_all", ret[1])
            /\ UNCHANGED <<idx, results, runVars>>
       ELSE /\ results' = Append(results, ret[1].value[1])
            /\ UNCHANGED <<finished, mode>>
            /\ IF idx < Len(tasksDir)
               THEN /\ idx' = idx + 1
                    /\ BeginExecuteTask(tasksDir[idx + 1])
               ELSE /\ pc' = "aggregate"
                    /\ UNCHANGED <<idx, runVars>>
    /\ UNCHANGED <<tasksDir, ws, saved, invocations, agent>>
    /\ UNCHANGED unitVars

\* run_all after its loop: SuiteResults.from_results, suite.save, return.
SuiteFinish ==
    /\ pc = "aggregate"
    /\ \E save_ok \in BOOLEAN :
         LET suite == from_results(agent, results) IN
         IF save_ok
         THEN /\ saved' = Append(saved, SuiteResults_save(suite))
              /\ EndInvocation("run_all", Return(suite))
         ELSE /\ saved' = saved
              /\ EndInvocation("run_all", Raise("OSError", <<"save">>))
    /\ UNCHANGED <<tasksDir, ws, invocations, agent, idx, results, runVars>>
    /\ UNCHANGED unitVars

Next ==
    \/ \E id \in TaskIds, a \in AgentTypes : run_task(id, a)
    \/ \E a \in AgentTypes : run_all(a)
    \/ PrepareWorkspace
    \/ AgentExecute
    \/ Verify
    \/ CreateResult
    \/ ExecuteTaskReturns
    \/ SuiteFinish

Spec == Init /\ [][Next]_vars

----------------------------------------------------------------------------
(* Properties of a task run *)

Called(call) == call # None

Failed(call) == call # None /\ Raised(call[1])

Returned(call) == call # None /\ ~Raised(call[1])

\* _execute_task has ended (by return or by raise).
Ended == ret # None

\* result.save / suite.save could not write the results directory.
SaveFailed == Failed(ret) /\ ExcType(ret[1]) = "OSError"

StageFailed == Failed(prep) \/ Failed(agent_result) \/ Failed(verification)

IsFailure(result) ==
    /\ result.success = FALSE
    /\ result.score = 0
    /\ result.error # None
    /\ result.error[1] # <<>>

\* C1: an exception raised by workspace preparation, agent execution or
\* verification is turned by _execute_task into a returned BenchmarkResult with
\* success False, score 0 and a non-empty error; _execute_task does not raise
\* because a stage failed.
C1_StageFailureReturned ==
    (Ended /\ StageFailed /\ ~SaveFailed) =>
        (Returned(ret) /\ IsFailure(ret[1].value[1]))

\* C2: run_all runs every loaded task in load order whatever failed before:
\* when it ends, its SuiteResults holds one BenchmarkResult per loaded task, in
\* load order, and the suite file is the last file saved.
C2_SuiteHoldsEveryTask ==
    (finished # None /\ finished[1].mode = "run_all"
       /\ ~(Raised(finished[1].call) /\ ExcType(finished[1].call) = "OSError")) =>
        /\ ~Raised(finished[1].call)
        /\ LET suite == finished[1].call.value[1] IN
           /\ suite.total_tasks = Len(tasksDir)
           /\ Len(suite.results) = Len(tasksDir)
           /\ \A i \in 1..Len(tasksDir) : suite.results[i].task_id = tasksDir[i].id
           /\ saved # <<>>
           /\ saved[Len(saved)] = SuiteResults_save(suite)

\* C3: within one run, agent.execute is never invoked once workspace
\* preparation raised, and Verifier.verify is never invoked once workspace
\* preparation or agent.execute raised.
C3_LaterStagesSkipped ==
    /\ Failed(prep) => (calls.execute = 0 /\ calls.verify = 0)
    /\ Failed(agent_result) => calls.verify = 0

\* C3 witness: workspace preparation raised and the run has ended.
C3_Witness == Failed(prep) /\ Ended /\ calls.prepare = 1

HappyPath == <<"Init", "WorkspaceReady", "AgentExecuted", "Verified", "Persisted">>

IsPrefix(s, t) == Len(s) <= Len(t) /\ \A i \in 1..Len(s) : s[i] = t[i]

StageTags ==
    {"Failed to prepare workspace: ", "Agent execution failed: ",
     "Verification failed: ", "Verification tests failed"}

\* C4: a run moves Init -> WorkspaceReady -> AgentExecuted -> Verified ->
\* Persisted, in that order, performing each stage at most once; its only
\* other move is from a stage to the terminal state Failed, whose error message
\* names the stage.
C4_StateMachine ==
    trace # <<>> =>
        /\ \A stage \in DOMAIN calls : calls[stage] <= 1
        /\ \/ IsPrefix(trace, HappyPath)
           \/ /\ trace[Len(trace)] = "Failed"
              /\ IsPrefix(SubSeq(trace, 1, Len(trace) - 1), HappyPath)
              /\ Len(trace) <= Len(HappyPath)
              /\ Returned(ret)
              /\ IsFailure(ret[1].value[1])
              /\ ret[1].value[1].error[1][1] \in StageTags

\* C5: a task with repository "none" whose verification command exits with 0,
\* run with an agent that returns a successful AgentResult, gives a
\* BenchmarkResult with success True and score 100.
C5_StubAgentSucceeds ==
    (/\ Ended /\ ~SaveFailed
     /\ cur[1].source.repository = "none"
     /\ Returned(prep)
     /\ Returned(agent_result) /\ agent_result[1].value[1].success
     /\ Returned(verification) /\ verification[1].value[1].exit_code = Some(0)) =>
        /\ Returned(ret)
        /\ ret[1].value[1].success = TRUE
        /\ ret[1].value[1].score = 100

\* C6: a verification command that completes with a non-zero exit code gives a
\* BenchmarkResult with success False, score 0 and error exactly "Verification
\* tests failed"; a verification that times out gives one with success False,
\* score 0 and an error carrying the timeout message, different from
\* "Verification tests failed".
C6_VerificationFailureModes ==
    (Ended /\ ~SaveFailed) =>
        /\ (Returned(verification) /\ verification[1].value[1].exit_code # Some(0)) =>
              /\ Returned(ret)
              /\ IsFailure(ret[1].value[1])
              /\ ret[1].value[1].error = Some(<<"Verification tests failed">>)
        /\ (Called(verification) /\ outcome.kind = "timeout") =>
              /\ Returned(ret)
              /\ IsFailure(ret[1].value[1])
              /\ ret[1].value[1].error # Some(<<"Verification tests failed">>)
              /\ ret[1].value[1].error =
                    Some(<<"Verification failed: ">> \o ExcMsg(verification[1]))

\* C7: every VerificationResult that Verifier.verify returns has
\* passed == (exit_code == 0).
C7_PassedIffExitZero ==
    Returned(verification) =>
        (verification[1].value[1].passed <=> verification[1].value[1].exit_code = Some(0))

\* C7 witness: verify returned a result for a command that exited with 1.
C7_Witness ==
    /\ Returned(verification)
    /\ cur[1].verification.command # ""
    /\ verification[1].value[1].exit_code = Some(1)

\* C8: when the verification command does not complete within the timeout,
\* Verifier.verify raises VerificationError and returns no VerificationResult.
C8_TimeoutRaises ==
    (Called(verification) /\ outcome.kind = "timeout") =>
        /\ Failed(verification)
        /\ ExcType(verification[1]) = "VerificationError"
        /\ verification[1].value = None

\* C8 witness: the verification command of the current run timed out.
C8_Witness == Called(verification) /\ outcome.kind = "timeout"

\* C9: after a successful workspace preparation the workspace holds nothing
\* written by a previous run: every file in it stems from the current run.
C9_NoLeftovers ==
    Returned(prep) =>
        /\ ws[cur[1].id].exists
        /\ \A r \in ws[cur[1].id].written : r = run

\* C9 witness: the run found a workspace holding a file of an earlier run and
\* prepared its workspace successfully.
C9_Witness == Returned(prep) /\ stale.exists /\ stale.written # {}

\* C10: for a task whose repository is "none", _prepare_workspace never invokes
\* the clone logic, and the workspace it returns is an empty directory.
C10_NoneNeverClones ==
    (Called(prep) /\ cur[1].source.repository = "none") =>
        /\ ~cloned
        /\ (Returned(prep) /\ pc = "execute") => IsEmpty(ws[cur[1].id])

\* C10 witness: a "none" task that found a workspace of an earlier run has just
\* been prepared.
C10_Witness ==
    /\ Returned(prep) /\ pc = "execute"
    /\ cur[1].source.repository = "none"
    /\ stale.exists

NamesRepository(task) ==
    task.source.repository # "none" /\ task.source.repository # ""

\* C25: every way Verifier.verify can fail is reported as a VerificationError:
\* an empty command, a command that cannot be tokenized, a program that cannot
\* be started and a timeout; no other exception type escapes verify.
C25_OnlyVerificationError ==
    Failed(verification) => ExcType(verification[1]) = "VerificationError"

\* C26: when workspace preparation or agent execution failed, the run returns a
\* failed BenchmarkResult with iterations 0 and no tokens_used; when
\* verification raised or reported a non-zero exit, it returns one with the
\* iterations and tokens_used of the AgentResult and the agent transcript
\* attached.
C26_FailureCarriesStageData ==
    (Ended /\ ~SaveFailed) =>
        /\ (Failed(prep) \/ Failed(agent_result)) =>
              /\ Returned(ret)
              /\ IsFailure(ret[1].value[1])
              /\ ret[1].value[1].iterations = 0
              /\ ret[1].value[1].tokens_used = None
        /\ (\/ Failed(verification)
            \/ (Returned(verification) /\ ~verification[1].value[1].passed)) =>
              /\ Returned(ret)
              /\ IsFailure(ret[1].value[1])
              /\ ret[1].value[1].iterations = agent_result[1].value[1].iterations
              /\ ret[1].value[1].tokens_used = agent_result[1].value[1].tokens_used
              /\ ret[1].value[1].agent_output = Some(agent_result[1].value[1].output)

\* C28: for a task that names a repository, a preparation that returns has
\* cloned it and has checked out task.source.commit, unless the commit is
\* "main", "master" or "HEAD", for which no checkout is performed; a clone or
\* checkout failure makes the preparation raise GitError and return no
\* workspace path.
C28_CloneAndCheckout ==
    (Called(prep) /\ NamesRepository(cur[1])) =>
        LET dir == ws[cur[1].id]
            commit == cur[1].source.commit
        IN /\ Returned(prep) =>
                /\ cloned /\ dir.repo
                /\ prep[1].value[1] = cur[1].id
                /\ dir.checked_out = IF commit \in {"main", "master", "HEAD"}
                                     THEN None ELSE Some(commit)
           /\ (Failed(prep) /\ cloned) => ExcType(prep[1]) = "GitError"
           /\ (commit \in {"main", "master", "HEAD"}) => dir.checked_out = None

\* C28 witness: a task naming a repository and a commit to check out has just
\* been prepared.
C28_Witness ==
    /\ Returned(prep) /\ pc = "execute"
    /\ NamesRepository(cur[1])
    /\ ws[cur[1].id].checked_out = Some("abc123")

\* C29: the result of a run does not depend on the success flag of the
\* AgentResult: verification is run whatever the flag, and whenever it has
\* completed the run returns a BenchmarkResult whose success, score and error
\* follow from the verification alone -- success True and score 100 when it
\* passed, also for an agent that reported success False.
C29_AgentFlagIgnored ==
    /\ (Returned(agent_result) /\ Ended) => Called(verification)
    /\ (Ended /\ ~SaveFailed /\ Returned(verification)) =>
          /\ Returned(ret)
          /\ ret[1].value[1].success = verification[1].value[1].passed
          /\ ret[1].value[1].score = IF verification[1].value[1].passed THEN 100 ELSE 0
          /\ ret[1].value[1].error =
                IF verification[1].value[1].passed THEN None
                ELSE Some(<<"Verification tests failed">>)

----------------------------------------------------------------------------
(* task.py: PermissionsConfig; agents/claude.py: ClaudeAgent *)

\* task.permissions: the four flags and the optional named mode.
Permissions == [read : BOOLEAN, write : BOOLEAN, bash : BOOLEAN, web_fetch : BOOLEAN,
                mode : {None, Some("plan")}]

Elevated(perms) == perms.write \/ perms.bash \/ perms.web_fetch

\* The claude command line, by its options: ["claude", "--permission-mode", m,
\* "--allowedTools", tools, "--continue", "-p", prompt].
BareCommand == [permission_mode |-> None, allowedTools |-> None, continue |-> FALSE,
                prompt |-> None]

\* The allowed_tools list both adapters build from the four flags.
tools_of(read, write, bash, web) ==
    (IF read THEN <<"Read", "Glob", "Grep">> ELSE <<>>)
      \o (IF write THEN <<"Write", "Edit">> ELSE <<>>)
      \o (IF bash THEN <<"Bash">> ELSE <<>>)
      \o (IF web THEN <<"WebFetch", "WebSearch">> ELSE <<>>)

\* Faulty variant: the shell tool granted with the write permission.
claude_allowed_tools_mutant(perms) ==
    tools_of(perms.read, perms.write, perms.write, perms.web_fetch)

claude_allowed_tools(perms) ==
    tools_of(perms.read, perms.write, perms.bash, perms.web_fetch)

_apply_permissions(cmd, perms) ==
    LET allowed_tools == claude_allowed_tools(perms) IN
    [cmd EXCEPT
       !.permission_mode = IF perms.mode # None THEN perms.mode
                           ELSE IF Elevated(perms) THEN Some("dontAsk")
                           ELSE None,
       !.allowedTools = IF allowed_tools # <<>> THEN Some(allowed_tools) ELSE None]

ContinuePrompt ==
    "Please continue with the task. Check if verification passes. If there are errors, fix them and retry."

loop_command_mutant(perms, prompt, i) ==
    LET cmd == _apply_permissions(BareCommand, perms) IN
    IF i <= 1 THEN [cmd EXCEPT !.prompt = Some(prompt)]
    ELSE [cmd EXCEPT !.continue = TRUE, !.prompt = Some(ContinuePrompt)]

\* The command of loop iteration i (0-based): the task prompt first, then
\* --continue with the fixed continuation prompt.
loop_command(perms, prompt, i) ==
    LET cmd == _apply_permissions(BareCommand, perms) IN
    IF i = 0 THEN [cmd EXCEPT !.prompt = Some(prompt)]
    ELSE [cmd EXCEPT !.continue = TRUE, !.prompt = Some(ContinuePrompt)]

\* What a claude process writes: stdout and stderr, as sequences of words.
Stdouts == {<<>>, <<"DONE">>, <<"working">>}

Stderrs == {<<>>, <<"DONE">>, <<"error">>}

CliExitCodes == {0, 1}

\* last_output: f"{stdout}\n\nSTDERR:\n{stderr}" if stderr else stdout.
combined_output(stdout, stderr) ==
    IF stderr # <<>> THEN stdout \o <<"STDERR:">> \o stderr ELSE stdout

\* "DONE" in last_output.
has_marker(output) == \E k \in 1..Len(output) : output[k] = "DONE"

\* Faulty variant: the marker alone ends the loop, whatever the exit code.
iteration_succeeded_mutant(exit_code, output) == has_marker(output)

iteration_succeeded(exit_code, output) == exit_code = 0 /\ has_marker(output)

\* Faulty variant: the loop gives up one iteration early.
\* success of the single-shot AgentResult: success=(exit_code == 0)
single_shot_success(exit_code, output) == exit_code = 0

loop_continues_mutant(i, max_iterations) == i < max_iterations - 2

\* Whether the loop has another iteration after iteration i (0-based).
loop_continues(i, max_iterations) == i < max_iterations - 1

ClaudeAgentResult(success, output, iterations) ==
    [success |-> success, output |-> output, iterations |-> iterations,
     tokens_used |-> None, agent_version |-> None, model_name |-> None]

NoProcess == [state |-> "none", hung |-> FALSE]

\* The wall-clock timeout of the single-shot wait.
SingleShotTimeout == 300

\* The deadline around the wait of the multi-turn loop: process.communicate()
\* is awaited bare.
loop_deadline == None

\* The frame of ClaudeAgent(max_iterations).execute(task, workspace) at entry:
\* its locals, the subprocess it waits for, and what happened so far (events:
\* the invocations and delays in order; marker_emitted: some output held the
\* marker; first_done: the first iteration that exited with 0 with the marker
\* in its output, 0 if none; spawn_failed; timed_out).
ClaudeFrame(perms, max_iterations) ==
    [perms |-> perms, prompt |-> "task prompt", max_iterations |-> max_iterations,
     pc |-> "entry", i |-> 0, iterations |-> 0, last_output |-> <<>>,
     cmd |-> None, proc |-> NoProcess, deadline |-> None,
     events |-> <<>>, marker_emitted |-> FALSE, first_done |-> 0,
     exit_code |-> None, spawn_failed |-> FALSE, timed_out |-> FALSE, result |-> None]

SingleShot == claude.max_iterations = 1

\* execute up to the creation of the next subprocess: the single-shot branch
\* or one pass of the loop head.  create_subprocess_exec may fail, which either
\* except-block turns into AgentError.
ClaudeInvoke ==
    /\ claude # None
    /\ claude.pc \in {"entry", "next"}
    /\ \E spawn_ok \in BOOLEAN, hung \in BOOLEAN :
         LET cmd == IF SingleShot
                    THEN [_apply_permissions(BareCommand, claude.perms)
                            EXCEPT !.prompt = Some(claude.prompt)]
                    ELSE loop_command(claude.perms, claude.prompt, claude.i)
             entered == [claude EXCEPT !.iterations = @ + 1, !.cmd = Some(cmd),
                                       !.events = Append(@, "invoke")]
         IN claude' =
              IF spawn_ok
              THEN [entered EXCEPT !.pc = "wait",
                                   !.proc = [state |-> "running", hung |-> hung],
                                   !.deadline = IF SingleShot THEN Some(SingleShotTimeout)
                                                ELSE loop_deadline]
              ELSE [entered EXCEPT !.pc = "done", !.spawn_failed = TRUE,
                                   !.result = Some(Raise("AgentError",
                                       IF SingleShot
                                       THEN <<"Failed to execute claude CLI: ", "OSError">>
                                       ELSE <<"Failed to execute claude CLI (iteration ",
                                              ToString(claude.i + 1), "): ", "OSError">>))]
    /\ UNCHANGED <<pipelineVars, grant, bench, loader, sdk>>

\* process.communicate() completes: the code from there to the next await or
\* to the end of execute.
ClaudeCommunicate ==
    /\ claude # None
    /\ claude.pc = "wait"
    /\ ~claude.proc.hung
    /\ \E exit_code \in CliExitCodes, stdout \in Stdouts, stderr \in Stderrs :
         LET last_output == combined_output(stdout, stderr)
             seen == [claude EXCEPT !.proc.state = "exited", !.deadline = None,
                                    !.exit_code = Some(exit_code),
                                    !.last_output = last_output,
                                    !.marker_emitted = @ \/ has_marker(last_output),
                                    !.first_done =
                                        IF @ = 0 /\ exit_code = 0
                                                 /\ \E k \in 1..Len(last_output) :
                                                        last_output[k] = "DONE"
                                        THEN claude.iterations ELSE @]
         IN claude' =
              IF SingleShot
              THEN [seen EXCEPT !.pc = "done",
                                !.result = Some(Return(ClaudeAgentResult(
                                    single_shot_success(exit_code, last_output),
                                    last_output, claude.iterations)))]
              ELSE IF iteration_succeeded(exit_code, last_output)
              THEN [seen EXCEPT !.pc = "done",
                                !.result = Some(Return(ClaudeAgentResult(
                                    TRUE, last_output, claude.iterations)))]
              ELSE IF loop_continues(claude.i, claude.max_iterations)
              THEN [seen EXCEPT !.pc = "sleep"]
              ELSE [seen EXCEPT !.pc = "done",
                                !.result = Some(Return(ClaudeAgentResult(
                                    FALSE, last_output, claude.iterations)))]
    /\ UNCHANGED <<pipelineVars, grant, bench, loader, sdk>>

\* asyncio.sleep(2) between two iterations ends; the loop goes on.
ClaudeSleep ==
    /\ claude # None
    /\ claude.pc = "sleep"
    /\ claude' = [claude EXCEPT !.pc = "next", !.i = @ + 1,
                                !.events = Append(@, "delay")]
    /\ UNCHANGED <<pipelineVars, grant, bench, loader, sdk>>

\* The deadline of asyncio.wait_for expires: communicate() is cancelled, the
\* subprocess is left as it is, and AgentError is raised.
ClaudeTimeout ==
    /\ claude # None
    /\ claude.pc = "wait"
    /\ claude.deadline # None
    /\ claude' = [claude EXCEPT !.pc = "done", !.deadline = None, !.timed_out = TRUE,
                                !.result = Some(Raise("AgentError",
                                    <<"Claude CLI command timed out after ",
                                      ToString(claude.deadline[1]), " seconds">>))]
    /\ UNCHANGED <<pipelineVars, grant, bench, loader, sdk>>

\* A subprocess abandoned by execute ends later, by itself or when its
\* transport is collected.
ClaudeOrphanEnds ==
    /\ claude # None
    /\ claude.pc = "done"
    /\ claude.proc.state = "running"
    /\ claude' = [claude EXCEPT !.proc.state = "exited"]
    /\ UNCHANGED <<pipelineVars, grant, bench, loader, sdk>>

\* One ClaudeAgent.execute call, for every max_iterations and permission set.
ClaudeInit ==
    /\ tasksDir = <<>>
    /\ PipelineStart
    /\ claude \in { ClaudeFrame(p, n) : p \in Permissions, n \in 1..MaxCap }
    /\ grant = None
    /\ bench = None
    /\ loader = None
    /\ sdk = None

ClaudeNext ==
    \/ ClaudeInvoke
    \/ ClaudeCommunicate
    \/ ClaudeSleep
    \/ ClaudeTimeout
    \/ ClaudeOrphanEnds

SpecClaude == ClaudeInit /\ [][ClaudeNext]_vars

----------------------------------------------------------------------------
(* Properties of ClaudeAgent.execute *)

MultiTurn == claude.max_iterations > 1

ClaudeDone == claude.pc = "done"

\* The subprocess invocations execute has made.
Invocations == Cardinality({ k \in 1..Len(claude.events) : claude.events[k] = "invoke" })

ExhaustedResult ==
    /\ Returned(claude.result)
    /\ claude.result[1].value[1].success = FALSE
    /\ claude.result[1].value[1].iterations = claude.max_iterations
    /\ Invocations = claude.max_iterations

\* C11 as claimed: a multi-turn execution (cap N > 1) in which no invocation
\* emits the completion marker makes exactly N invocations and returns an
\* AgentResult with success False and iterations N; it never raises.
C11_AsClaimed ==
    (MultiTurn /\ ClaudeDone /\ ~claude.marker_emitted) => ExhaustedResult

\* C11 amended: a multi-turn execution (cap N > 1) in which every invocation's
\* subprocess is started and none emits the completion marker makes exactly N
\* invocations and returns success False with iterations N; an invocation
\* whose subprocess cannot be started raises AgentError instead.
C11_CapExhausted ==
    (MultiTurn /\ ClaudeDone /\ ~claude.marker_emitted) =>
        IF claude.spawn_failed
        THEN Failed(claude.result) /\ ExcType(claude.result[1]) = "AgentError"
        ELSE ExhaustedResult

\* C11 witness: a multi-turn execution ran to its cap without a marker.
C11_Witness ==
    /\ MultiTurn /\ ClaudeDone
    /\ ~claude.marker_emitted /\ ~claude.spawn_failed
    /\ Invocations = claude.max_iterations

\* C12: in multi-turn mode execute returns success True exactly when some
\* iteration exited with 0 with the marker in its output; it then stops at the
\* first such iteration k, with iterations == k and no further invocation.  An
\* iteration with the marker but a non-zero exit, or with exit 0 but no marker,
\* does not end the loop with success.
C12_StopsAtFirstDone ==
    MultiTurn =>
        /\ claude.first_done # 0 =>
              /\ ClaudeDone
              /\ Returned(claude.result)
              /\ claude.result[1].value[1].success = TRUE
              /\ claude.result[1].value[1].iterations = claude.first_done
              /\ Invocations = claude.first_done
        /\ (Returned(claude.result) /\ claude.result[1].value[1].success) =>
              claude.first_done # 0

\* C12 witness: the loop went past its first iteration and stopped with success
\* at its second.
C12_Witness ==
    /\ MultiTurn
    /\ claude.first_done = 2
    /\ claude.marker_emitted
    /\ Returned(claude.result)

\* C15: every wait for a spawned subprocess is bounded by a wall-clock deadline,
\* in single-shot and in multi-turn mode alike, so that execute ends even when
\* the subprocess never exits.
C15_WaitBounded ==
    claude.pc = "wait" => claude.deadline # None

\* C16: once the timeout error of a subprocess wait has been raised, no
\* subprocess spawned by that stage is still running.
C16_KilledOnTimeout ==
    claude.timed_out => claude.proc.state # "running"

Crashed == claude.exit_code # None /\ claude.exit_code[1] # 0

\* C21: in single-shot mode a crash of the agent process (non-zero exit code)
\* makes execute raise AgentError instead of returning an AgentResult; in
\* multi-turn mode the crash is captured and counts as a failed iteration
\* without raising.
C21_CrashIsHardError ==
    /\ (SingleShot /\ ClaudeDone /\ Crashed) =>
          (Failed(claude.result) /\ ExcType(claude.result[1]) = "AgentError")
    /\ (MultiTurn /\ Crashed /\ ~claude.spawn_failed) =>
          /\ ~Failed(claude.result)
          /\ claude.first_done = 0

\* C22: in single-shot mode the CLI is invoked once with iterations == 1 under
\* a 300-second timeout whose expiry raises AgentError; a non-zero exit never
\* yields success True, and exit code 0 alone does not force success True:
\* some output of a process that exited with 0 yields success False.
C22_SingleShot ==
    SingleShot =>
        /\ Invocations <= 1
        /\ claude.pc = "wait" => claude.deadline = Some(300)
        /\ claude.timed_out =>
              (Failed(claude.result) /\ ExcType(claude.result[1]) = "AgentError")
        /\ Returned(claude.result) =>
              /\ claude.result[1].value[1].iterations = 1
              /\ claude.result[1].value[1].success => claude.exit_code = Some(0)
        /\ (Returned(claude.result) /\ claude.exit_code = Some(0)) =>
              \E stdout \in Stdouts, stderr \in Stderrs :
                  ~single_shot_success(0, combined_output(stdout, stderr))

\* C27: in a multi-turn execution the first invocation sends the task prompt
\* without --continue and every later one the fixed continuation prompt with
\* --continue; invocations and delays strictly alternate, starting with an
\* invocation, and a run exhausting the cap N makes N invocations and N-1
\* delays.
C27_ContinueAndDelay ==
    MultiTurn =>
        /\ claude.cmd # None =>
              IF claude.iterations = 1
              THEN /\ ~claude.cmd[1].continue
                   /\ claude.cmd[1].prompt = Some(claude.prompt)
              ELSE /\ claude.cmd[1].continue
                   /\ claude.cmd[1].prompt = Some(ContinuePrompt)
        /\ \A k \in 1..Len(claude.events) :
              claude.events[k] = (IF k % 2 = 1 THEN "invoke" ELSE "delay")
        /\ (ClaudeDone /\ Returned(claude.result) /\ claude.first_done = 0) =>
              /\ Invocations = claude.max_iterations
              /\ Len(claude.events) - Invocations = claude.max_iterations - 1

\* C27 witness: a run with the largest cap was exhausted.
C27_Witness ==
    /\ claude.max_iterations = MaxCap
    /\ ClaudeDone
    /\ Returned(claude.result)
    /\ claude.first_done = 0
    /\ claude.cmd[1].continue
    /\ Len(claude.events) = 2 * MaxCap - 1

----------------------------------------------------------------------------
(* evaluator.py on its own: results are created, get their transcripts
   attached, are collected into a list, and the list is aggregated once *)

\* keyword arguments as the signatures of create_success / create_failure
\* declare them, and as _execute_task passes them (with agent_version and
\* model_name added)
CreateKwargs(iterations, tokens_used, duration_secs, extra) ==
    LET declared == [task_id |-> "fix-1", agent |-> "claude",
                     iterations |-> iterations, tokens_used |-> tokens_used,
                     duration_secs |-> duration_secs]
    IN IF extra THEN declared @@ [agent_version |-> None, model_name |-> None]
                ELSE declared

ErrorMessages == {<<"Verification failed">>}

\* success, score and error as the constructor set them
Verdict(result) == [success |-> result.success, score |-> result.score, error |-> result.error]

BenchStart ==
    [pc |-> "building", results |-> <<>>, cur |-> None, made |-> None,
     raised |-> None, suite |-> None]

BenchCreated(call) ==
    IF Raised(call)
    THEN bench' = [bench EXCEPT !.raised = call.raised]
    ELSE bench' = [bench EXCEPT !.cur = call.value, !.made = Some(Verdict(call.value[1])),
                                !.raised = None]

BenchCreateSuccess ==
    /\ bench # None /\ bench.pc = "building" /\ bench.cur = None
    /\ \E duration_secs \in {0, MaxDuration}, extra \in BOOLEAN :
          BenchCreated(create_success(
              CreateKwargs(MaxIterations, Some(MaxTokens), duration_secs, extra)))
    /\ UNCHANGED <<pipelineVars, claude, grant, loader, sdk>>

BenchCreateFailure ==
    /\ bench # None /\ bench.pc = "building" /\ bench.cur = None
    /\ \E duration_secs \in {0, MaxDuration}, error \in ErrorMessages, extra \in BOOLEAN :
          BenchCreated(create_failure(
              CreateKwargs(0, None, duration_secs, extra) @@ [error |-> error]))
    /\ UNCHANGED <<pipelineVars, claude, grant, loader, sdk>>

BenchAttachAgentOutput ==
    /\ bench # None /\ bench.pc = "building" /\ bench.cur # None
    /\ bench' = [bench EXCEPT !.cur = Some(with_agent_output(bench.cur[1], "agent transcript"))]
    /\ UNCHANGED <<pipelineVars, claude, grant, loader, sdk>>

BenchAttachVerificationOutput ==
    /\ bench # None /\ bench.pc = "building" /\ bench.cur # None
    /\ bench' = [bench EXCEPT
                   !.cur = Some(with_verification_output(bench.cur[1], "verification transcript"))]
    /\ UNCHANGED <<pipelineVars, claude, grant, loader, sdk>>

\* results.append(result)
BenchCollect ==
    /\ bench # None /\ bench.pc = "building" /\ bench.cur # None
    /\ Len(bench.results) < MaxResults
    /\ bench' = [bench EXCEPT !.results = Append(bench.results, bench.cur[1]),
                              !.cur = None, !.made = None]
    /\ UNCHANGED <<pipelineVars, claude, grant, loader, sdk>>

BenchFromResults ==
    /\ bench # None /\ bench.pc = "building"
    /\ bench' = [bench EXCEPT !.pc = "done",
                              !.suite = Some(from_results("claude", bench.results))]
    /\ UNCHANGED <<pipelineVars, claude, grant, loader, sdk>>

EvaluatorInit ==
    /\ tasksDir = <<>>
    /\ PipelineStart
    /\ claude = None
    /\ grant = None
    /\ bench = BenchStart
    /\ loader = None
    /\ sdk = None

EvaluatorNext ==
    \/ BenchCreateSuccess
    \/ BenchCreateFailure
    \/ BenchAttachAgentOutput
    \/ BenchAttachVerificationOutput
    \/ BenchCollect
    \/ BenchFromResults

SpecEvaluator == EvaluatorInit /\ [][EvaluatorNext]_vars

Aggregated == bench.suite # None

Succeeded(list) == { k \in 1..Len(list) : list[k].success }

\* C13: for every list of results, from_results yields total_tasks equal to the
\* length of the list, passed equal to the number of results with success True,
\* and passed + failed equal to total_tasks.
C13_Counts ==
    Aggregated =>
        LET suite == bench.suite[1] IN
        /\ suite.total_tasks = Len(bench.results)
        /\ suite.passed = Cardinality(Succeeded(bench.results))
        /\ suite.passed + suite.failed = suite.total_tasks

\* C13 witness: a full list holding a passed and a failed result was aggregated.
C13_Witness ==
    /\ Aggregated
    /\ bench.suite[1].total_tasks = MaxResults
    /\ bench.suite[1].passed >= 1
    /\ bench.suite[1].failed >= 1

\* C14: from_results never divides by zero: pass_rate is 0.0 for the empty list
\* and passed / total_tasks otherwise, hence 1 exactly when every result
\* succeeded and 0 exactly when none did.
C14_PassRate ==
    Aggregated =>
        LET suite == bench.suite[1]
            n == Len(bench.results)
            ok == Cardinality(Succeeded(bench.results))
        IN /\ suite.pass_rate.den # 0
           /\ (n = 0) => suite.pass_rate = [num |-> 0, den |-> 1]
           /\ (n > 0) =>
                /\ suite.pass_rate = [num |-> ok, den |-> n]
                /\ (suite.pass_rate.num = suite.pass_rate.den) <=> (ok = n)
                /\ (suite.pass_rate.num = 0) <=> (ok = 0)

\* C14 witness: the empty list was aggregated.
C14_Witness ==
    /\ Aggregated
    /\ bench.results = <<>>
    /\ bench.suite[1].pass_rate.num = 0

WellScored(result) ==
    /\ result.score \in {0, 100}
    /\ (result.score = 100) <=> (result.success = TRUE)
    /\ (result.score = 0) <=> (result.success = FALSE)
    /\ (result.error # None) <=> (result.success = FALSE)

\* C20: every result made by create_success or create_failure has score 100
\* exactly when it is a success and score 0 exactly when it is a failure, and
\* carries an error exactly when it is a failure; attaching the agent or the
\* verification transcript leaves success, score and error as they were made.
C20_ScoreAndError ==
    /\ bench.cur # None =>
          /\ WellScored(bench.cur[1])
          /\ Verdict(bench.cur[1]) = bench.made[1]
    /\ \A k \in 1..Len(bench.results) : WellScored(bench.results[k])

\* C20 witness: a failure with both transcripts attached.
C20_Witness ==
    /\ bench.cur # None
    /\ ~bench.cur[1].success
    /\ bench.cur[1].agent_output # None
    /\ bench.cur[1].verification_output # None

\* C19: whichever way _execute_task ends (success, verification failed,
\* verification error, agent execution error, workspace preparation error), it
\* returns a result on which save has been called exactly once.
C19_SavedExactlyOnce ==
    Ended => (Returned(ret) /\ calls.save = 1)

----------------------------------------------------------------------------
(* claude.py and claude_sdk.py: what a task's permissions become when each
   adapter prepares its invocation *)

\* claude_sdk.py: the web tools are added for the task's web_fetch or for the
\* adapter's own enable_web_search.
_build_allowed_tools(perms, enable_web_search) ==
    tools_of(perms.read, perms.write, perms.bash, perms.web_fetch \/ enable_web_search)

\* The permission-related fields of the ClaudeAgentOptions built by
\* ClaudeSDKAgent.execute.
ClaudeAgentOptions(perms, enable_web_search) ==
    [allowed_tools |-> _build_allowed_tools(perms, enable_web_search),
     permission_mode |-> "bypassPermissions"]

GrantStart(perms, enable_web_search) ==
    [perms |-> perms, enable_web_search |-> enable_web_search,
     cmd |-> None, options |-> None]

\* ClaudeAgent builds its command line.
GrantCommand ==
    /\ grant # None /\ grant.cmd = None
    /\ grant' = [grant EXCEPT !.cmd = Some(_apply_permissions(BareCommand, grant.perms))]
    /\ UNCHANGED <<pipelineVars, claude, bench, loader, sdk>>

\* ClaudeSDKAgent builds its options.
GrantOptions ==
    /\ grant # None /\ grant.options = None
    /\ grant' = [grant EXCEPT
                   !.options = Some(ClaudeAgentOptions(grant.perms, grant.enable_web_search))]
    /\ UNCHANGED <<pipelineVars, claude, bench, loader, sdk>>

PermissionsInit ==
    /\ tasksDir = <<>>
    /\ PipelineStart
    /\ claude = None
    /\ grant \in { GrantStart(p, w) : p \in Permissions, w \in BOOLEAN }
    /\ bench = None
    /\ loader = None
    /\ sdk = None

PermissionsNext == GrantCommand \/ GrantOptions

SpecPermissions == PermissionsInit /\ [][PermissionsNext]_vars

ToolSet(tools) == { tools[k] : k \in 1..Len(tools) }

\* The union the permission flags stand for.
GrantedTools(read, write, bash, web) ==
    (IF read THEN {"Read", "Glob", "Grep"} ELSE {})
      \cup (IF write THEN {"Write", "Edit"} ELSE {})
      \cup (IF bash THEN {"Bash"} ELSE {})
      \cup (IF web THEN {"WebFetch", "WebSearch"} ELSE {})

TaskGrants(perms) == GrantedTools(perms.read, perms.write, perms.bash, perms.web_fetch)

\* The allowlist on the command line; a command line without --allowedTools
\* lists no tool.
CommandTools(cmd) == IF cmd.allowedTools = None THEN {} ELSE ToolSet(cmd.allowedTools[1])

NetworkTools == {"WebFetch", "WebSearch"}

\* C17 as stated: the allowlist of either adapter is exactly the union given by
\* the task's four flags, so network tools are listed only when the task grants
\* web_fetch.
C17_AsClaimed ==
    /\ grant.cmd # None => CommandTools(grant.cmd[1]) = TaskGrants(grant.perms)
    /\ grant.options # None =>
          /\ ToolSet(grant.options[1].allowed_tools) = TaskGrants(grant.perms)
          /\ (ToolSet(grant.options[1].allowed_tools) \cap NetworkTools # {})
                => grant.perms.web_fetch

\* C17: the command line of ClaudeAgent lists exactly the union given by the
\* task's four flags (and carries no --allowedTools when that union is empty);
\* the options of ClaudeSDKAgent list that union with the network tools added
\* also when the adapter was constructed with enable_web_search, so network
\* tools are listed only when the task grants web_fetch or the adapter enables
\* web search.
C17_Allowlist ==
    /\ grant.cmd # None =>
          /\ CommandTools(grant.cmd[1]) = TaskGrants(grant.perms)
          /\ (grant.cmd[1].allowedTools = None) <=> (TaskGrants(grant.perms) = {})
    /\ grant.options # None =>
          /\ ToolSet(grant.options[1].allowed_tools) =
                GrantedTools(grant.perms.read, grant.perms.write, grant.perms.bash,
                             grant.perms.web_fetch \/ grant.enable_web_search)
          /\ (ToolSet(grant.options[1].allowed_tools) \cap NetworkTools # {})
                => (grant.perms.web_fetch \/ grant.enable_web_search)

\* C17 witness: both adapters prepared a task that grants bash but not
\* web_fetch, the SDK adapter having web search enabled.
C17_Witness ==
    /\ grant.cmd # None
    /\ grant.options # None
    /\ grant.perms.bash
    /\ ~grant.perms.web_fetch
    /\ grant.enable_web_search
    /\ "WebSearch" \in ToolSet(grant.options[1].allowed_tools)
    /\ "WebSearch" \notin CommandTools(grant.cmd[1])

AutoApproveModes == {"dontAsk", "bypassPermissions"}

\* C18: the agent is run in an auto-approve permission mode exactly when the
\* task grants write, bash or web_fetch; with none of them granted no permission
\* mode is requested.
C18_AutoApproveIffElevated ==
    /\ grant.cmd # None =>
          /\ (/\ grant.cmd[1].permission_mode # None
              /\ grant.cmd[1].permission_mode[1] \in AutoApproveModes)
                <=> Elevated(grant.perms)
          /\ ~Elevated(grant.perms) => grant.cmd[1].permission_mode = None
    /\ grant.options # None =>
          (grant.options[1].permission_mode \in AutoApproveModes) <=> Elevated(grant.perms)

----------------------------------------------------------------------------
(* task.py: TaskLoader on a tasks directory *)

TaskFile(suffix, yaml, data) == [suffix |-> suffix, yaml |-> yaml, data |-> data]

\* The mapping a well-formed task file holds: the fields of Task.
TaskData(task, title, prompt) == task @@ [title |-> title, prompt |-> prompt]

RequiredFields == {"id", "title", "source", "prompt", "verification"}

\* What a tasks directory may hold: a file for each task of TaskPool, a file
\* with an empty id, one with an empty prompt, one without its verification
\* section, one that is not YAML, and one that is not a task file at all.
FilePool ==
    { TaskFile(".yaml", "mapping", TaskData(t, "a title", "task prompt")) : t \in TaskPool }
      \cup { TaskFile(".yml", "mapping",
                      TaskData(Task("", "none", "main", "pytest -q"), "a title", "task prompt")),
             TaskFile(".yaml", "mapping",
                      TaskData(Task("fix-1", "none", "main", "pytest -q"), "a title", "")),
             TaskFile(".yaml", "mapping",
                      [id |-> "fix-2", title |-> "a title", prompt |-> "task prompt",
                       source |-> [repository |-> "none", commit |-> "main"]]),
             TaskFile(".yaml", "malformed", None),
             TaskFile(".txt", "mapping", None) }

\* Task.from_file: yaml.safe_load, then model_validate (required fields; the
\* validators of id, title and prompt); every failure becomes TaskLoadError.
from_file(file) ==
    IF file.yaml = "malformed"
    THEN Raise("TaskLoadError", <<"Failed to parse">>)
    ELSE IF ~(RequiredFields \subseteq DOMAIN file.data)
    THEN Raise("TaskLoadError", <<"Failed to load", "Field required">>)
    ELSE IF file.data.id = ""
    THEN Raise("TaskLoadError", <<"Failed to load", "Task ID cannot be empty">>)
    ELSE IF file.data.title = ""
    THEN Raise("TaskLoadError", <<"Failed to load", "Task title cannot be empty">>)
    ELSE IF file.data.prompt = ""
    THEN Raise("TaskLoadError", <<"Failed to load", "Task prompt cannot be empty">>)
    ELSE Return([id |-> file.data.id, source |-> file.data.source,
                 verification |-> file.data.verification])

\* path.suffix in {".yaml", ".yml"}
is_task_file(file) == file.suffix \in {".yaml", ".yml"}

\* The files in the order iterdir yields them, subdirectories flattened.
Directories == UNION { [1..n -> FilePool] : n \in 0..MaxFiles }

LoaderStart(files) ==
    [pc |-> "loading", files |-> files, pos |-> 0, tasks |-> <<>>, warnings |-> 0,
     found |-> None]

\* One pass of the loop of _load_recursive.
LoadNextFile ==
    /\ loader # None /\ loader.pc = "loading"
    /\ loader.pos < Len(loader.files)
    /\ LET file == loader.files[loader.pos + 1]
           here == [loader EXCEPT !.pos = @ + 1]
       IN loader' =
            IF ~is_task_file(file) THEN here
            ELSE IF Raised(from_file(file)) THEN [here EXCEPT !.warnings = @ + 1]
            ELSE [here EXCEPT !.tasks = Append(@, from_file(file).value[1])]
    /\ UNCHANGED <<pipelineVars, claude, grant, bench, sdk>>

LoadAllReturns ==
    /\ loader # None /\ loader.pc = "loading"
    /\ loader.pos = Len(loader.files)
    /\ loader' = [loader EXCEPT !.pc = "loaded"]
    /\ UNCHANGED <<pipelineVars, claude, grant, bench, sdk>>

\* load_by_id on the loaded list.
LoaderLoadById ==
    /\ loader # None /\ loader.pc = "loaded"
    /\ \E task_id \in TaskIds :
          loader' = [loader EXCEPT !.pc = "done",
                                   !.found = Some(load_by_id(loader.tasks, task_id))]
    /\ UNCHANGED <<pipelineVars, claude, grant, bench, sdk>>

LoaderInit ==
    /\ tasksDir = <<>>
    /\ PipelineStart
    /\ claude = None
    /\ grant = None
    /\ bench = None
    /\ loader \in { LoaderStart(files) : files \in Directories }
    /\ sdk = None

LoaderNext == LoadNextFile \/ LoadAllReturns \/ LoaderLoadById

SpecLoader == LoaderInit /\ [][LoaderNext]_vars

Loaded == loader.pc \in {"loaded", "done"}

WithId(task_id) == { k \in 1..Len(loader.tasks) : loader.tasks[k].id = task_id }

\* C23: in every list load_all returns the task ids are pairwise distinct, so
\* load_by_id (and the workspace path workspace_dir/<id>) identifies exactly one
\* task of the loaded set.
C23_UniqueIds ==
    /\ Loaded => \A task_id \in TaskIds : Cardinality(WithId(task_id)) <= 1
    /\ Returned(loader.found) =>
          Cardinality(WithId(loader.found[1].value[1].id)) = 1

\* C24: a task file whose verification command is empty is rejected at load
\* time: no task of the loaded list has an empty verification command.
C24_CommandNonEmpty ==
    \A k \in 1..Len(loader.tasks) : loader.tasks[k].verification.command # ""

----------------------------------------------------------------------------
(* agents/base.py: create_agent; agents/claude_sdk.py: ClaudeSDKAgent.execute
   and the process environment *)

EnvNames ==
    {"ANTHROPIC_BASE_URL", "ANTHROPIC_MODEL", "ANTHROPIC_API_KEY", "DEEPSEEK_AUTH_TOKEN",
     "CLAUDE_CODE_ENTRYPOINT"}

\* A mapping of variable names to values; None for a name that is not set.
NoEnv == [n \in EnvNames |-> None]

\* os.environ when the program starts: the user may have exported an API key
\* and the token of the DeepSeek backend.
StartEnvirons ==
    { [NoEnv EXCEPT !["ANTHROPIC_API_KEY"] = key, !["DEEPSEEK_AUTH_TOKEN"] = token] :
        key \in {None, Some("personal-key")}, token \in {None, Some("deepseek-token")} }

SdkAgentTypes == {"claude", "claude-deepseek"}

\* create_agent: the env_vars each agent type is constructed with.
create_agent(agent_type, environ) ==
    IF agent_type = "claude"
    THEN [display_name |-> "claude", model |-> None, env_vars |-> NoEnv]
    ELSE [display_name |-> "claude-deepseek", model |-> Some("deepseek-chat"),
          env_vars |-> [NoEnv EXCEPT
                          !["ANTHROPIC_BASE_URL"] = Some("https://api.deepseek.com/anthropic"),
                          !["ANTHROPIC_MODEL"] = Some("deepseek-chat"),
                          !["ANTHROPIC_API_KEY"] = environ["DEEPSEEK_AUTH_TOKEN"]]]

\* dict.update: the names set in vars replace those of env.
environ_update(env, updates) ==
    [n \in EnvNames |-> IF updates[n] # None THEN updates[n] ELSE env[n]]

\* Faulty variant: the environment is not cleared before the copy is put back.
restore_environ_mutant(env, original_env) == environ_update(env, original_env)

\* The finally-block: os.environ.clear(); os.environ.update(original_env).
restore_environ(env, original_env) == environ_update(NoEnv, original_env)

_get_model_name(env_vars, environ) ==
    IF env_vars["ANTHROPIC_MODEL"] # None THEN env_vars["ANTHROPIC_MODEL"][1]
    ELSE IF environ["ANTHROPIC_MODEL"] # None THEN environ["ANTHROPIC_MODEL"][1]
    ELSE "claude-sonnet-4-5"

\* ResultMessage.usage: absent, or a mapping that may lack either count.
Usages ==
    {None} \cup { Some([input_tokens |-> i, output_tokens |-> o]) :
                    i \in {None, Some(0), Some(MaxTokens)},
                    o \in {None, Some(0), Some(MaxTokens)} }

ResultMessages ==
    [is_error : BOOLEAN, num_turns : {0, MaxIterations}, usage : Usages]

\* message.usage.get(key, 0)
usage_get(count) == IF count = None THEN 0 ELSE count[1]

\* Faulty variant: a total of 0 reported as a count.
sdk_tokens_used_mutant(total_tokens) == Some(total_tokens)

\* tokens_used=total_tokens if total_tokens > 0 else None
sdk_tokens_used(total_tokens) == IF total_tokens > 0 THEN Some(total_tokens) ELSE None

SdkStart(environ) ==
    [pc |-> "idle", environ |-> environ, agent |-> None, original_env |-> None,
     before |-> None, model_name |-> None, success |-> FALSE, iterations |-> 0,
     input_tokens |-> 0, output_tokens |-> 0, output_lines |-> 0,
     result_message |-> None, executions |-> 0, result |-> None]

\* execute from its entry to the first message of query(): the copy of the
\* environment, the update with the agent's env_vars, the model name.
SdkEnter ==
    /\ sdk # None /\ sdk.pc = "idle"
    /\ sdk.executions < MaxRuns
    /\ \E agent_type \in SdkAgentTypes :
         LET a == create_agent(agent_type, sdk.environ)
             updated == environ_update(sdk.environ, a.env_vars)
         IN sdk' = [sdk EXCEPT !.pc = "query", !.agent = Some(a),
                               !.before = Some(sdk.environ),
                               !.original_env = Some(sdk.environ),
                               !.environ = updated,
                               !.model_name = Some(_get_model_name(a.env_vars, updated)),
                               !.success = FALSE, !.iterations = 0,
                               !.input_tokens = 0, !.output_tokens = 0,
                               !.output_lines = 0, !.result_message = None,
                               !.result = None]
    /\ UNCHANGED <<pipelineVars, claude, grant, bench, loader>>

\* query() yields an AssistantMessage or a SystemMessage: a line of output.
\* The SDK marks the process environment with its entry point while it runs.
SdkOutputMessage ==
    /\ sdk # None /\ sdk.pc = "query"
    /\ sdk.result_message = None
    /\ sdk.output_lines < MaxIterations
    /\ sdk' = [sdk EXCEPT !.output_lines = @ + 1,
                          !.environ["CLAUDE_CODE_ENTRYPOINT"] = Some("sdk-py")]
    /\ UNCHANGED <<pipelineVars, claude, grant, bench, loader>>

\* query() yields its ResultMessage, the last message of a stream.
SdkResultMessage ==
    /\ sdk # None /\ sdk.pc = "query"
    /\ sdk.result_message = None
    /\ \E message \in ResultMessages :
         sdk' = [sdk EXCEPT
                   !.result_message = Some(message),
                   !.success = ~message.is_error,
                   !.iterations = message.num_turns,
                   !.input_tokens = IF message.usage # None
                                    THEN usage_get(message.usage[1].input_tokens) ELSE @,
                   !.output_tokens = IF message.usage # None
                                     THEN usage_get(message.usage[1].output_tokens) ELSE @,
                   !.environ["CLAUDE_CODE_ENTRYPOINT"] = Some("sdk-py")]
    /\ UNCHANGED <<pipelineVars, claude, grant, bench, loader>>

\* The stream ends or query() raises; execute returns or raises AgentError, and
\* the finally-block puts the environment back.
SdkLeave ==
    /\ sdk # None /\ sdk.pc = "query"
    /\ \E raises \in BOOLEAN :
         sdk' = [sdk EXCEPT
                   !.pc = "idle", !.executions = @ + 1,
                   !.environ = restore_environ(sdk.environ, sdk.original_env[1]),
                   !.result =
                       IF raises
                       THEN Some(Raise("AgentError", <<"Failed to execute task with SDK: ", "sdk">>))
                       ELSE Some(Return([AgentResult(
                                             sdk.success, sdk.iterations,
                                             sdk_tokens_used(sdk.input_tokens
                                                               + sdk.output_tokens))
                                           EXCEPT !.model_name = sdk.model_name]))]
    /\ UNCHANGED <<pipelineVars, claude, grant, bench, loader>>

SdkInit ==
    /\ tasksDir = <<>>
    /\ PipelineStart
    /\ claude = None
    /\ grant = None
    /\ bench = None
    /\ loader = None
    /\ sdk \in { SdkStart(environ) : environ \in StartEnvirons }

SdkNext == SdkEnter \/ SdkOutputMessage \/ SdkResultMessage \/ SdkLeave

SpecSDK == SdkInit /\ [][SdkNext]_vars

\* C30: after execute has returned an AgentResult or raised, os.environ equals
\* its value before the call; the variables injected for one backend are not
\* set for a later execution unless they were set before.
C30_EnvironRestored ==
    (sdk.pc = "idle" /\ sdk.executions > 0) =>
        /\ sdk.environ = sdk.before[1]
        /\ sdk.environ \in StartEnvirons

\* C30 witness: an execution of the DeepSeek backend, which injected its
\* endpoint and the SDK's marker, has raised and a second execution has ended.
C30_Witness ==
    /\ sdk.pc = "idle" /\ sdk.executions = 2
    /\ Failed(sdk.result)
    /\ sdk.agent[1].display_name = "claude-deepseek"
    /\ sdk.environ["ANTHROPIC_BASE_URL"] = None
    /\ sdk.environ["ANTHROPIC_API_KEY"] = Some("personal-key")

\* The token counts a ResultMessage reports, a missing usage or count being 0.
ReportedTokens(message) ==
    IF message.usage = None THEN 0
    ELSE (IF message.usage[1].input_tokens = None THEN 0
          ELSE message.usage[1].input_tokens[1])
           + (IF message.usage[1].output_tokens = None THEN 0
              ELSE message.usage[1].output_tokens[1])

\* C31: when the event stream ends without a ResultMessage the AgentResult has
\* success False, iterations 0 and no tokens_used; when a ResultMessage arrived
\* it has success == not is_error, iterations == num_turns and tokens_used equal
\* to input_tokens + output_tokens, or None when that sum is 0.
C31_ResultFromResultMessage ==
    (sdk.pc = "idle" /\ Returned(sdk.result)) =>
        LET result == sdk.result[1].value[1] IN
        IF sdk.result_message = None
        THEN /\ result.success = FALSE
             /\ result.iterations = 0
             /\ result.tokens_used = None
        ELSE LET message == sdk.result_message[1] IN
             /\ result.success = ~message.is_error
             /\ result.iterations = message.num_turns
             /\ result.tokens_used =
                   IF ReportedTokens(message) = 0 THEN None
                   ELSE Some(ReportedTokens(message))

\* C31 witness: a stream that yielded output but no ResultMessage has ended and
\* execute has returned.
C31_Witness ==
    /\ sdk.pc = "idle"
    /\ Returned(sdk.result)
    /\ sdk.result_message = None
    /\ sdk.output_lines > 0

====
